---------------------------- MODULE Spec2Model ----------------------------
(***************************************************************************)
(* The agent-memory evaluation loop of Democrative-AI.                     *)
(*                                                                         *)
(* Two variants of the same loop are modelled side by side:                *)
(*   "inproc"  : src/llm_core.py,  memory is a Python list per agent       *)
(*   "durable" : src/llm_core2.py, memory is the MongoDB collection        *)
(*               db.questions, one document per question text              *)
(*                                                                         *)
(* A Python str is modelled as a sequence of one-character strings, so     *)
(* that str.split() and str.upper() are computed and not assumed.          *)
(***************************************************************************)
EXTENDS Integers, Sequences, FiniteSets, TLC

\* ------------------------------------------------------------------ bounds
\* size of the agent pool handed to create_agents (the script uses 10)
NumAgents == 2
\* questions the operator enters before answering "no"
MaxRounds == 2
\* longest inference response, in characters
MaxLen == 2
\* update_memory calls made on top of the initial memories in SpecCap
CapCalls == 3
\* most keys of the mapping handed to scramble_sequence
MaxKeys == 3
\* update_memory calls made on top of the initial store in SpecRecent
RecentCalls == 2

\* --------------------------------------------------------- program constants
\* llm_core.py:53   if len(self.memory) > 500
K == 500
\* llm_core2.py:86  limit=5
MemLimit == 5

\* ------------------------------------------------------------------ inputs
Agents == 1..NumAgents
Variants == {"inproc", "durable"}
\* question texts the operator can type
Questions == {"q1", "q2"}
\* characters of an inference response: a label in both cases, a non-label
\* character, and white space
Char == {"b", "B", ")", " "}
\* the labels the operator can type as the correct answer
CorrectAnswers == {<<"a">>, <<"b">>}
\* every str of at most n characters
StringsUpTo(n) == UNION {[1..k -> Char] : k \in 0..n}
\* what chain.run can return
Responses == StringsUpTo(MaxLen)

\* ------------------------------------------------------------ str functions
\* str.upper(), character by character
UpperChar(c) ==
    CASE c = "a" -> "A"
      [] c = "b" -> "B"
      [] OTHER -> c

upper(s) == [k \in 1..Len(s) |-> UpperChar(s[k])]

IsSpace(c) == c = " "

\* positions of s that hold a non-white-space character
NonSpace(s) == {k \in 1..Len(s) : ~IsSpace(s[k])}

\* str.split() returns [] exactly when s has no non-white-space character,
\* and then [0] raises IndexError
SplitIsEmpty(s) == NonSpace(s) = {}

\* s.split()[0]: the first maximal run of non-white-space characters
SplitFirst(s) ==
    LET from == CHOOSE k \in NonSpace(s) : \A j \in NonSpace(s) : k <= j
        stop == {k \in from..Len(s) : IsSpace(s[k])}
        to   == IF stop = {} THEN Len(s)
                ELSE (CHOOSE k \in stop : \A j \in stop : k <= j) - 1
    IN  SubSeq(s, from, to)

\* answer.upper() == correct_answer.upper()
SameAnswer(answer, correct) == upper(answer) = upper(correct)

\* result computed with answer == correct_answer, without upper()
Result_case_sensitive(answer, correct) ==
    IF answer = correct THEN "correct" ELSE "incorrect"

Result(answer, correct) ==
    IF SameAnswer(answer, correct) THEN "correct" ELSE "incorrect"

\* ------------------------------------------------------------------- state
VARIABLES
    variant,          \* which script runs
    pc,               \* position of the main loop
    error,            \* the exception that ended the run, or "none"
    rounds,           \* questions entered so far
    mcq,              \* the question text of this round
    correct_answer,   \* the correct answer the operator typed
    i,                \* the agent get_all_responses is at
    response,         \* what chain.run returned to agent i
    mcq_answer,       \* response.split()[0]
    is_correct,       \* line 71 / 112
    memory,           \* inproc: agent -> list of memory entries
    store,            \* durable: db.questions in _id (insertion) order
    correct_answers,  \* agent -> counter
    total_questions,  \* agent -> counter
    hist,             \* history: agent -> every entry update_memory recorded
    prompt_memory,    \* the memory entries joined into agent i's prompt
    elements,         \* the mapping loaded from init.json, in key order
    scrambled,        \* what scramble_sequence(elements) returned
    um                \* agent -> its update_memory call when calls interleave

vars == <<variant, pc, error, rounds, mcq, correct_answer, i, response,
          mcq_answer, is_correct, memory, store, correct_answers,
          total_questions, hist, prompt_memory, elements, scrambled, um>>

\* the state the main loop never writes: elements is only read, the scrambled
\* copy is a local that reaches the prompt text alone, and the loop makes its
\* update_memory calls one after the other
aside == <<elements, scrambled, um>>

\* --------------------------------------------------------- in-process memory
\* the f-string of update_memory, kept as its four fields
MemoryEntry(question, answer, correct) ==
    [question |-> question, answer |-> answer, correct_answer |-> correct,
     result |-> Result(answer, correct)]

\* update_memory with self.memory.pop() in place of pop(0)
update_memory_pop_last(mem, question, answer, correct) ==
    LET appended == Append(mem, MemoryEntry(question, answer, correct))
    IN  IF Len(appended) > K THEN SubSeq(appended, 1, Len(appended) - 1)
        ELSE appended

\* update_memory replacing the agent's earlier record of the same question
update_memory_dedup(mem, question, answer, correct) ==
    LET keep == SelectSeq(mem, LAMBDA e : e.question # question)
    IN  Append(keep, MemoryEntry(question, answer, correct))

\* llm_core.py update_memory on one agent's list
update_memory(mem, question, answer, correct) ==
    LET appended == Append(mem, MemoryEntry(question, answer, correct))
    IN  IF Len(appended) > K THEN Tail(appended) ELSE appended

\* ------------------------------------------------------------ durable memory
\* the sub-document stored under agents.<agent_id>
AgentData(answer, correct) ==
    [answer |-> answer, correct_answer |-> correct,
     result |-> Result(answer, correct)]

\* db.questions.find_one({"question": q}): the _id of the first match, 0 for None
find_one(st, question) ==
    LET hits == {k \in 1..Len(st) : st[k].question = question}
    IN  IF hits = {} THEN 0 ELSE CHOOSE k \in hits : \A j \in hits : k <= j

\* {"$set": {"agents.<agent_id>": data}} on a document's agents mapping
SetAgent(agents, a, data) ==
    [x \in (DOMAIN agents) \cup {a} |-> IF x = a THEN data ELSE agents[x]]

\* update_one writing the sub-field only when the agent has none yet
update_one_if_absent(st, id, a, data) ==
    IF a \in DOMAIN st[id].agents THEN st
    ELSE [st EXCEPT ![id].agents = SetAgent(@, a, data)]

\* update_one with {"$set": {"agents": {agent_id: data}}}: the whole mapping
update_one_whole_mapping(st, id, a, data) ==
    [st EXCEPT ![id].agents = (a :> data)]

\* db.questions.update_one({"_id": id}, {"$set": ...})
update_one(st, id, a, data) ==
    [st EXCEPT ![id].agents = SetAgent(@, a, data)]

\* db.questions.insert_one({...}): the new document gets the largest _id
insert_one(st, question, a, data) ==
    Append(st, [question |-> question, agents |-> (a :> data)])

\* update_memory without the find_one lookup: every call inserts
update_memory_db_insert_only(st, a, question, answer, correct) ==
    insert_one(st, question, a, AgentData(answer, correct))

\* llm_core2.py update_memory
update_memory_db(st, a, question, answer, correct) ==
    LET existing == find_one(st, question)
    IN  IF existing # 0
        THEN update_one(st, existing, a, AgentData(answer, correct))
        ELSE insert_one(st, question, a, AgentData(answer, correct))

\* the n largest elements of the set of _ids S, largest first
RECURSIVE SortDescLimit(_, _)
SortDescLimit(S, n) ==
    IF S = {} \/ n = 0 THEN <<>>
    ELSE LET top == CHOOSE k \in S : \A j \in S : j <= k
         IN  <<top>> \o SortDescLimit(S \ {top}, n - 1)

\* the memory_entry f-string of get_memory, kept as its four fields
StoredEntry(doc, a) ==
    [question |-> doc.question, answer |-> doc.agents[a].answer,
     correct_answer |-> doc.agents[a].correct_answer,
     result |-> doc.agents[a].result]

\* get_memory with sort=[("_id", 1)]
get_memory_oldest_first(st, a) ==
    LET hits == {k \in 1..Len(st) : a \in DOMAIN st[k].agents}
        desc == SortDescLimit(hits, Cardinality(hits))
        n    == IF Len(desc) < MemLimit THEN Len(desc) ELSE MemLimit
    IN  [j \in 1..n |-> StoredEntry(st[desc[Len(desc) - j + 1]], a)]

\* llm_core2.py get_memory: find({agents.<agent_id>: {$exists: True}},
\* sort=[("_id", -1)], limit=5), one entry per document found
get_memory(st, a) ==
    LET hits == {k \in 1..Len(st) : a \in DOMAIN st[k].agents}
        ids  == SortDescLimit(hits, MemLimit)
    IN  [j \in 1..Len(ids) |-> StoredEntry(st[ids[j]], a)]

\* -------------------------------------------------------------------- score
\* update_score counting only the wrong answers in total_questions
update_score_total_else(total, correct) == IF correct THEN total ELSE total + 1

update_score_total(total, correct) == total + 1

update_score_correct(count, correct) == IF correct THEN count + 1 ELSE count

\* ------------------------------------------------------------------ actions
NoAnswer == <<>>

Init ==
    /\ variant \in Variants
    /\ pc = "input"
    /\ error = "none"
    /\ rounds = 0
    /\ mcq = "q1"
    /\ correct_answer = <<"a">>
    /\ i = 1
    /\ response = NoAnswer
    /\ mcq_answer = NoAnswer
    /\ is_correct = FALSE
    /\ memory = [a \in Agents |-> <<>>]
    /\ store = <<>>
    /\ correct_answers = [a \in Agents |-> 0]
    /\ total_questions = [a \in Agents |-> 0]
    /\ hist = [a \in Agents |-> <<>>]
    /\ prompt_memory = <<>>
    /\ elements = <<>>
    /\ scrambled = <<>>
    /\ um = <<>>

\* the entries Agent.answer joins into the prompt of agent a: self.memory in
\* list order (llm_core.py), self.get_memory() (llm_core2.py)
PromptMemory(a) ==
    IF variant = "inproc" THEN memory[a] ELSE get_memory(store, a)

\* get_all_responses taking the start value of enumerate(agents, 1) for the
\* index of the first agent
GetMcqFromSecond ==
    /\ pc = "input"
    /\ rounds < MaxRounds
    /\ \E q \in Questions, c \in CorrectAnswers :
          /\ mcq' = q
          /\ correct_answer' = c
    /\ rounds' = rounds + 1
    /\ i' = 2
    /\ pc' = "answer"
    /\ UNCHANGED <<variant, error, response, mcq_answer, is_correct, memory,
                   store, correct_answers, total_questions, hist,
                   prompt_memory, aside>>

\* get_mcq_from_user, then get_all_responses starts at the first agent
GetMcq ==
    /\ pc = "input"
    /\ rounds < MaxRounds
    /\ \E q \in Questions, c \in CorrectAnswers :
          /\ mcq' = q
          /\ correct_answer' = c
    /\ rounds' = rounds + 1
    /\ i' = 1
    /\ pc' = "answer"
    /\ UNCHANGED <<variant, error, response, mcq_answer, is_correct, memory,
                   store, correct_answers, total_questions, hist,
                   prompt_memory, aside>>

\* the operator answers "no": the loop ends and the accuracies are printed
Stop ==
    /\ pc = "input"
    /\ rounds >= 1
    /\ pc' = "done"
    /\ UNCHANGED <<variant, error, rounds, mcq, correct_answer, i, response,
                   mcq_answer, is_correct, memory, store, correct_answers,
                   total_questions, hist, prompt_memory, aside>>

\* an exception nobody catches ends the script: nothing after the raising
\* statement runs
Raise(e) ==
    /\ pc' = "crashed"
    /\ error' = e
    /\ UNCHANGED <<variant, rounds, mcq, correct_answer, i, mcq_answer,
                   is_correct, memory, store, correct_answers,
                   total_questions, hist, aside>>

\* Agent.answer returns, and line 71 / 112 computes is_correct
AnswerReturns ==
    /\ pc = "answer"
    /\ \E r \in Responses :
          /\ ~SplitIsEmpty(r)
          /\ response' = r
          /\ mcq_answer' = SplitFirst(r)
          /\ is_correct' = SameAnswer(SplitFirst(r), correct_answer)
    /\ prompt_memory' = PromptMemory(i)
    /\ pc' = "record"
    /\ UNCHANGED <<variant, error, rounds, mcq, correct_answer, i, memory,
                   store, correct_answers, total_questions, hist, aside>>

\* Agent.answer: response.split() is empty and [0] raises IndexError
AnswerIndexError ==
    /\ pc = "answer"
    /\ \E r \in Responses :
          /\ SplitIsEmpty(r)
          /\ response' = r
    /\ prompt_memory' = PromptMemory(i)
    /\ Raise("IndexError")

\* get_all_responses catching the failure and scoring it as a wrong answer
InferenceFailsScored ==
    /\ pc = "answer"
    /\ total_questions' = [total_questions EXCEPT ![i] = @ + 1]
    /\ pc' = "crashed"
    /\ error' = "InferenceError"
    /\ prompt_memory' = PromptMemory(i)
    /\ UNCHANGED <<variant, rounds, mcq, correct_answer, i, response,
                   mcq_answer, is_correct, memory, store, correct_answers,
                   hist, aside>>

\* Agent.answer: chain.run raises
InferenceFails ==
    /\ pc = "answer"
    /\ prompt_memory' = PromptMemory(i)
    /\ UNCHANGED response
    /\ Raise("InferenceError")

\* update_memory when the prompt holds self.memory itself and not its join
UpdateMemoryAliased ==
    /\ pc = "record"
    /\ variant = "inproc"
    /\ memory' = [memory EXCEPT
                    ![i] = update_memory(@, mcq, mcq_answer, correct_answer)]
    /\ hist' = [hist EXCEPT
                    ![i] = Append(@, MemoryEntry(mcq, mcq_answer, correct_answer))]
    /\ prompt_memory' = memory'[i]
    /\ pc' = "score"
    /\ UNCHANGED <<variant, error, rounds, mcq, correct_answer, i, response,
                   mcq_answer, is_correct, store, correct_answers,
                   total_questions, aside>>

\* agent.update_memory of llm_core.py
UpdateMemory ==
    /\ pc = "record"
    /\ variant = "inproc"
    /\ memory' = [memory EXCEPT
                    ![i] = update_memory(@, mcq, mcq_answer, correct_answer)]
    /\ hist' = [hist EXCEPT
                    ![i] = Append(@, MemoryEntry(mcq, mcq_answer, correct_answer))]
    /\ pc' = "score"
    /\ UNCHANGED <<variant, error, rounds, mcq, correct_answer, i, response,
                   mcq_answer, is_correct, store, correct_answers,
                   total_questions, prompt_memory, aside>>

\* agent.update_memory of llm_core2.py
UpdateMemoryDb ==
    /\ pc = "record"
    /\ variant = "durable"
    /\ store' = update_memory_db(store, i, mcq, mcq_answer, correct_answer)
    /\ hist' = [hist EXCEPT
                    ![i] = Append(@, MemoryEntry(mcq, mcq_answer, correct_answer))]
    /\ pc' = "score"
    /\ UNCHANGED <<variant, error, rounds, mcq, correct_answer, i, response,
                   mcq_answer, is_correct, memory, correct_answers,
                   total_questions, prompt_memory, aside>>

\* agent.update_memory of llm_core2.py: a store operation raises
UpdateMemoryDbFails ==
    /\ pc = "record"
    /\ variant = "durable"
    /\ UNCHANGED <<response, prompt_memory>>
    /\ Raise("WriteError")

\* agent.update_score, then the next agent or the end of get_all_responses
UpdateScore ==
    /\ pc = "score"
    /\ total_questions' = [total_questions EXCEPT
                             ![i] = update_score_total(@, is_correct)]
    /\ correct_answers' = [correct_answers EXCEPT
                             ![i] = update_score_correct(@, is_correct)]
    /\ IF i < NumAgents
       THEN /\ i' = i + 1
            /\ pc' = "answer"
       ELSE /\ i' = i
            /\ pc' = "input"
    /\ response' = NoAnswer
    /\ mcq_answer' = NoAnswer
    /\ is_correct' = FALSE
    /\ prompt_memory' = <<>>
    /\ UNCHANGED <<variant, error, rounds, mcq, correct_answer, memory, store,
                   hist, aside>>

Next ==
    \/ GetMcq
    \/ Stop
    \/ AnswerReturns
    \/ AnswerIndexError
    \/ InferenceFails
    \/ UpdateMemory
    \/ UpdateMemoryDb
    \/ UpdateMemoryDbFails
    \/ UpdateScore

Spec == Init /\ [][Next]_vars

\* --------------------------------------------- update_memory at the capacity
\* SpecCap drives Agent.update_memory of llm_core.py directly, on agents whose
\* memory already holds K - 1 entries: the state K - 1 earlier calls leave.
CapQuestion(n) == IF n % 2 = 1 THEN "q1" ELSE "q2"

CapAnswer == <<"B">>

\* what n < K calls update_memory(CapQuestion(k), CapAnswer, "a"), k = 1..n,
\* leave in a fresh agent's memory: below K entries a call only appends
Prefill(n) == [k \in 1..n |-> MemoryEntry(CapQuestion(k), CapAnswer, <<"a">>)]

RECURSIVE Recorded(_)
\* entries recorded by the agents 1..n together
Recorded(n) == IF n = 0 THEN 0 ELSE Len(hist[n]) + Recorded(n - 1)

InitCap ==
    /\ variant = "inproc"
    /\ pc = "record"
    /\ error = "none"
    /\ rounds = 0
    /\ mcq = "q1"
    /\ correct_answer = <<"a">>
    /\ i = 1
    /\ response = NoAnswer
    /\ mcq_answer = NoAnswer
    /\ is_correct = FALSE
    /\ memory = [a \in Agents |-> Prefill(K - 1)]
    /\ store = <<>>
    /\ correct_answers = [a \in Agents |-> 0]
    /\ total_questions = [a \in Agents |-> 0]
    /\ hist = [a \in Agents |-> Prefill(K - 1)]
    /\ prompt_memory = <<>>
    /\ elements = <<>>
    /\ scrambled = <<>>
    /\ um = <<>>

\* one call agent.update_memory(question, answer, correct_answer)
CapUpdateMemory ==
    /\ Recorded(NumAgents) < NumAgents * (K - 1) + CapCalls
    /\ \E a \in Agents, q \in Questions, c \in CorrectAnswers :
          /\ memory' = [memory EXCEPT ![a] = update_memory(@, q, CapAnswer, c)]
          /\ hist' = [hist EXCEPT ![a] = Append(@, MemoryEntry(q, CapAnswer, c))]
    /\ pc' = "score"
    /\ UNCHANGED <<variant, error, rounds, mcq, correct_answer, i,
                   response, mcq_answer, is_correct, store, correct_answers,
                   total_questions, prompt_memory, aside>>

\* memory_str = "\n".join(self.memory), the first statement of Agent.answer
CapJoinMemory ==
    /\ \E a \in Agents :
          /\ prompt_memory' = PromptMemory(a)
          /\ i' = a
    /\ pc' = "answer"
    /\ UNCHANGED <<variant, error, rounds, mcq, correct_answer, response,
                   mcq_answer, is_correct, memory, store, correct_answers,
                   total_questions, hist, aside>>

NextCap ==
    \/ CapUpdateMemory
    \/ CapJoinMemory

SpecCap == InitCap /\ [][NextCap]_vars

\* ------------------------------------------- get_memory past the query limit
\* SpecRecent drives Agent.update_memory and Agent.get_memory of llm_core2.py
\* directly, on the store the loop leaves after every agent has answered the
\* first MemLimit + 1 questions of the bank once: more documents than one
\* query returns.
QuestionBank == <<"q1", "q2", "q3", "q4", "q5", "q6", "q7">>

BankQuestions == {QuestionBank[k] : k \in 1..Len(QuestionBank)}

\* db.questions after rounds 1..n, each agent answering CapAnswer to a
\* question whose correct answer is "a"
PrefillStore(n) ==
    [k \in 1..n |->
        [question |-> QuestionBank[k],
         agents |-> [a \in Agents |-> AgentData(CapAnswer, <<"a">>)]]]

\* what each agent recorded in those rounds
PrefillRecorded(n) ==
    [k \in 1..n |-> MemoryEntry(QuestionBank[k], CapAnswer, <<"a">>)]

InitRecent ==
    /\ variant = "durable"
    /\ pc = "input"
    /\ error = "none"
    /\ rounds = MemLimit + 1
    /\ mcq = QuestionBank[MemLimit + 1]
    /\ correct_answer = <<"a">>
    /\ i = 1
    /\ response = NoAnswer
    /\ mcq_answer = NoAnswer
    /\ is_correct = FALSE
    /\ memory = [a \in Agents |-> <<>>]
    /\ store = PrefillStore(MemLimit + 1)
    /\ correct_answers = [a \in Agents |-> 0]
    /\ total_questions = [a \in Agents |-> MemLimit + 1]
    /\ hist = [a \in Agents |-> PrefillRecorded(MemLimit + 1)]
    /\ prompt_memory = <<>>
    /\ elements = <<>>
    /\ scrambled = <<>>
    /\ um = <<>>

\* one call agent.update_memory(question, answer, correct_answer)
RecentUpdateMemory ==
    /\ Recorded(NumAgents) < NumAgents * (MemLimit + 1) + RecentCalls
    /\ \E a \in Agents, q \in BankQuestions, c \in CorrectAnswers :
          /\ store' = update_memory_db(store, a, q, CapAnswer, c)
          /\ hist' = [hist EXCEPT ![a] = Append(@, MemoryEntry(q, CapAnswer, c))]
          /\ i' = a
    /\ pc' = "score"
    /\ UNCHANGED <<variant, error, rounds, mcq, correct_answer, response,
                   mcq_answer, is_correct, memory, correct_answers,
                   total_questions, prompt_memory, aside>>

\* memory = agent.get_memory(), the first statement of Agent.answer
RecentGetMemory ==
    /\ \E a \in Agents :
          /\ prompt_memory' = get_memory(store, a)
          /\ i' = a
    /\ pc' = "answer"
    /\ UNCHANGED <<variant, error, rounds, mcq, correct_answer, response,
                   mcq_answer, is_correct, memory, store, correct_answers,
                   total_questions, hist, aside>>

NextRecent ==
    \/ RecentUpdateMemory
    \/ RecentGetMemory

SpecRecent == InitRecent /\ [][NextRecent]_vars

\* ------------------------------------------- update_memory calls interleaved
\* SpecConc runs one update_memory call of llm_core2.py per agent, on an empty
\* collection, with the store operations of the calls in any order: find_one
\* is one operation, the update_one or insert_one that follows is another.
UmIdle == [pc |-> "idle"]

InitConc ==
    /\ variant = "durable"
    /\ pc = "record"
    /\ error = "none"
    /\ rounds = 1
    /\ mcq = "q1"
    /\ correct_answer = <<"a">>
    /\ i = 1
    /\ response = NoAnswer
    /\ mcq_answer = NoAnswer
    /\ is_correct = FALSE
    /\ memory = [a \in Agents |-> <<>>]
    /\ store = <<>>
    /\ correct_answers = [a \in Agents |-> 0]
    /\ total_questions = [a \in Agents |-> 0]
    /\ hist = [a \in Agents |-> <<>>]
    /\ prompt_memory = <<>>
    /\ elements = <<>>
    /\ scrambled = <<>>
    /\ um = [a \in Agents |-> UmIdle]

\* update_memory(question, answer, correct_answer) up to and including
\* existing_question = self.db.questions.find_one({"question": question})
UmFindOne(a) ==
    /\ um[a].pc = "idle"
    /\ \E q \in Questions, c \in CorrectAnswers :
          um' = [um EXCEPT ![a] =
                    [pc |-> "found", question |-> q, answer |-> CapAnswer,
                     correct_answer |-> c, existing |-> find_one(store, q)]]
    /\ UNCHANGED <<variant, pc, error, rounds, mcq, correct_answer, i,
                   response, mcq_answer, is_correct, memory, store,
                   correct_answers, total_questions, hist, prompt_memory,
                   elements, scrambled>>

\* the rest of update_memory: update_one on the document found, or insert_one
UmWrite(a) ==
    /\ um[a].pc = "found"
    /\ store' =
          IF um[a].existing # 0
          THEN update_one(store, um[a].existing, a,
                          AgentData(um[a].answer, um[a].correct_answer))
          ELSE insert_one(store, um[a].question, a,
                          AgentData(um[a].answer, um[a].correct_answer))
    /\ hist' = [hist EXCEPT ![a] =
                  Append(@, MemoryEntry(um[a].question, um[a].answer,
                                        um[a].correct_answer))]
    /\ um' = [um EXCEPT ![a].pc = "done"]
    /\ UNCHANGED <<variant, pc, error, rounds, mcq, correct_answer, i,
                   response, mcq_answer, is_correct, memory, correct_answers,
                   total_questions, prompt_memory, elements, scrambled>>

NextConc == \E a \in Agents : UmFindOne(a) \/ UmWrite(a)

SpecConc == InitConc /\ [][NextConc]_vars

\* --------------------------------------------------------- scramble_sequence
\* A dict is its items in key order: a sequence of [key, value] with no key
\* twice. SpecScramble calls scramble_sequence on every mapping of at most
\* MaxKeys keys, with every order random.shuffle can leave.
Keys == 1..MaxKeys

Values == {"v1", "v2"}

Mappings ==
    {m \in UNION {[1..n -> [key : Keys, value : Values]] : n \in 0..MaxKeys} :
        \A j \in 1..Len(m), k \in 1..Len(m) : m[j].key = m[k].key => j = k}

\* the orders random.shuffle can leave a list of n elements in
Shuffles(n) == {p \in [1..n -> 1..n] : \A j \in 1..n, k \in 1..n : p[j] = p[k] => j = k}

\* data[key]
GetItem(data, key) ==
    (CHOOSE e \in {data[j] : j \in 1..Len(data)} : e.key = key).value

\* scramble_sequence returning dict(zip(keys, data.values())) after the shuffle
scramble_sequence_zip(data, p) ==
    [j \in 1..Len(data) |-> [key |-> data[p[j]].key, value |-> data[j].value]]

\* scramble_sequence(data) when random.shuffle leaves the keys in the order p
scramble_sequence(data, p) ==
    LET keys     == [j \in 1..Len(data) |-> data[j].key]
        shuffled == [j \in 1..Len(keys) |-> keys[p[j]]]
    IN  [j \in 1..Len(shuffled) |->
            [key |-> shuffled[j], value |-> GetItem(data, shuffled[j])]]

InitScramble ==
    /\ variant \in Variants
    /\ pc = "scramble"
    /\ error = "none"
    /\ rounds = 0
    /\ mcq = "q1"
    /\ correct_answer = <<"a">>
    /\ i = 1
    /\ response = NoAnswer
    /\ mcq_answer = NoAnswer
    /\ is_correct = FALSE
    /\ memory = [a \in Agents |-> <<>>]
    /\ store = <<>>
    /\ correct_answers = [a \in Agents |-> 0]
    /\ total_questions = [a \in Agents |-> 0]
    /\ hist = [a \in Agents |-> <<>>]
    /\ prompt_memory = <<>>
    /\ elements \in Mappings
    /\ scrambled = <<>>
    /\ um = <<>>

\* scrambled = scramble_sequence(elements), line 67 / 108; the function reads
\* data and writes only its own list of keys
Scramble ==
    /\ pc \in {"scramble", "scrambled"}
    /\ \E p \in Shuffles(Len(elements)) :
          scrambled' = scramble_sequence(elements, p)
    /\ pc' = "scrambled"
    /\ UNCHANGED <<variant, error, rounds, mcq, correct_answer, i, response,
                   mcq_answer, is_correct, memory, store, correct_answers,
                   total_questions, hist, prompt_memory, elements, um>>

NextScramble == Scramble

SpecScramble == InitScramble /\ [][NextScramble]_vars

\* ================================================================== claims
Last(s) == s[Len(s)]

Min(x, y) == IF x <= y THEN x ELSE y

\* the last n elements of s
LastN(s, n) == SubSeq(s, Len(s) - n + 1, Len(s))

RecordedAt(a, q) == {k \in 1..Len(hist[a]) : hist[a][k].question = q}

\* the latest entry agent a recorded for question q
Latest(a, q) ==
    hist[a][CHOOSE k \in RecordedAt(a, q) : \A j \in RecordedAt(a, q) : j <= k]

\* documents of the store that hold an outcome of agent a for question q
Outcomes(a, q) ==
    {k \in 1..Len(store) : store[k].question = q /\ a \in DOMAIN store[k].agents}

\* C2: in the durable variant, for every (question, agent) pair recorded at
\* least once the store holds exactly one outcome, and it is the answer,
\* correct_answer and result of the latest update_memory call for the pair.
C2_OneLatestOutcome ==
    variant = "durable" =>
        \A a \in Agents, q \in Questions :
            RecordedAt(a, q) # {} =>
                /\ Cardinality(Outcomes(a, q)) = 1
                /\ \A k \in Outcomes(a, q) :
                      store[k].agents[a] =
                          [answer |-> Latest(a, q).answer,
                           correct_answer |-> Latest(a, q).correct_answer,
                           result |-> Latest(a, q).result]

\* an agent recorded the same question twice, with different results
C2_Witness ==
    /\ variant = "durable"
    /\ \E a \in Agents, q \in Questions :
          \E k1 \in RecordedAt(a, q), k2 \in RecordedAt(a, q) :
              /\ k1 < k2
              /\ hist[a][k1].result = "incorrect"
              /\ hist[a][k2].result = "correct"

\* C3: in the durable variant an update_memory call by agent i on question
\* mcq leaves every other agent's outcome for that question, and every
\* outcome for every other question, present and unchanged.
C3_OtherOutcomesKept ==
    [][\A k \in 1..Len(store) : \A a \in DOMAIN store[k].agents :
          (a # i \/ store[k].question # mcq) =>
              /\ k <= Len(store')
              /\ store'[k].question = store[k].question
              /\ a \in DOMAIN store'[k].agents
              /\ store'[k].agents[a] = store[k].agents[a]]_vars

\* the second agent has written into a document that held the first agent's
\* outcome, with another question's document beside it
C3_Witness ==
    /\ variant = "durable"
    /\ pc = "score"
    /\ i = 2
    /\ Len(store) = 2
    /\ \E k \in 1..Len(store) :
          /\ store[k].question = mcq
          /\ DOMAIN store[k].agents = {1, 2}

\* C4: in the durable variant the store holds at most one document per
\* question text.
C4_OneDocumentPerQuestion ==
    \A k1 \in 1..Len(store), k2 \in 1..Len(store) :
        store[k1].question = store[k2].question => k1 = k2

\* a question was answered again by the agent that had answered it
C4_Witness ==
    /\ variant = "durable"
    /\ \E a \in Agents, q \in Questions : Cardinality(RecordedAt(a, q)) = 2
    /\ Len(store) = 1

\* C5: for every agent, in every state of either variant,
\* 0 <= correct_answers <= total_questions.
C5_ScoreBounds ==
    \A a \in Agents :
        /\ 0 <= correct_answers[a]
        /\ correct_answers[a] <= total_questions[a]

\* one agent got every question right, another none
C5_Witness ==
    \E a \in Agents, b \in Agents :
        /\ total_questions[a] = MaxRounds
        /\ correct_answers[a] = MaxRounds
        /\ total_questions[b] = MaxRounds
        /\ correct_answers[b] = 0

\* the valid option labels, in either letter case
LabelChars == {"a", "A", "b", "B"}

IsLabel(t) == Len(t) = 1 /\ t[1] \in LabelChars

\* a response has been returned to agent i by chain.run
Responded == pc \in {"record", "score"} \/ error = "IndexError"

\* C6: answer extraction never raises: for every response, the empty and the
\* white-space-only ones included, Agent.answer returns an answer and the
\* presentation is scored.
C6_ExtractionNeverRaises == error # "IndexError"

\* r1 and r2 differ only in the letter case of their leading character
LeadingCaseOnly(r1, r2) ==
    /\ Len(r1) = Len(r2)
    /\ Len(r1) >= 1
    /\ r1[1] # r2[1]
    /\ UpperChar(r1[1]) = UpperChar(r2[1])
    /\ \A k \in 2..Len(r1) : r1[k] = r2[k]

\* C7: the extracted answer is a valid label or the INVALID sentinel (one
\* value for every response that yields no label), and responses differing
\* only in the letter case of the leading character yield the same answer.
C7_LabelOrInvalid ==
    pc \in {"record", "score"} =>
        /\ \A r \in Responses :
              (~SplitIsEmpty(r) /\ ~IsLabel(SplitFirst(r)) /\ ~IsLabel(mcq_answer))
                  => SplitFirst(r) = mcq_answer
        /\ \A r \in Responses :
              LeadingCaseOnly(response, r) => SplitFirst(r) = mcq_answer

\* r begins with the letter of label c, in either case, and goes on
LabelThenMore(r, c) ==
    /\ Len(r) >= 2
    /\ Len(c) = 1
    /\ UpperChar(r[1]) = UpperChar(c[1])

\* C8: a response that begins with the correct label letter followed by
\* further characters is scored correct: both counters rise by one and the
\* recorded result is "correct".
C8_LabelPrefixIsCorrect ==
    [][(pc = "score" /\ LabelThenMore(response, correct_answer)) =>
          /\ Last(hist[i]).result = "correct"
          /\ correct_answers'[i] = correct_answers[i] + 1
          /\ total_questions'[i] = total_questions[i] + 1]_vars

\* C9: a non-empty response that does not begin with a label character is
\* scored incorrect whatever the correct label: it is scored, is_correct is
\* false and the recorded result is "incorrect".
C9_NonLabelIsIncorrect ==
    (Responded /\ response # <<>> /\ response[1] \notin LabelChars) =>
        /\ pc \in {"record", "score"}
        /\ ~is_correct
        /\ pc = "score" => Last(hist[i]).result = "incorrect"

\* C10: when the inference call of an agent raises, that agent's counters
\* and memory (list or stored sub-fields) are as they were before.
C10_FailedInferenceChangesNothing ==
    [][(error = "none" /\ error' = "InferenceError") =>
          UNCHANGED <<correct_answers, total_questions, memory, store>>]_vars

\* the inference call failed for an agent that had answered before
C10_Witness ==
    /\ error = "InferenceError"
    /\ total_questions[i] >= 1
    /\ hist[i] # <<>>

\* C11: in the durable variant a failed memory write does not abort the run:
\* the failing step goes on to update_score for that agent, and the store is
\* left as it was.
C11_WriteFailureNotFatal ==
    [][(error = "none" /\ error' = "WriteError") =>
          /\ pc' = "score"
          /\ store' = store]_vars

KeySet(m) == {m[j].key : j \in 1..Len(m)}

\* C12: scramble_sequence(M) returns a mapping with exactly the key set of M
\* and M's value for every key, whatever order the shuffle chooses, and M
\* (keys, values, key order) is unchanged by the call.
C12_ScrambleKeepsMapping ==
    [][pc' = "scrambled" =>
          /\ elements' = elements
          /\ Len(scrambled') = Len(elements)
          /\ KeySet(scrambled') = KeySet(elements)
          /\ \A j \in 1..Len(scrambled'), k \in 1..Len(elements) :
                scrambled'[j].key = elements[k].key =>
                    scrambled'[j].value = elements[k].value]_vars

\* a mapping of MaxKeys keys with unlike values came back in another order
C12_Witness ==
    /\ pc = "scrambled"
    /\ Len(elements) = MaxKeys
    /\ scrambled # elements
    /\ \E j \in 1..Len(elements), k \in 1..Len(elements) :
          elements[j].value # elements[k].value

\* _ids of the documents of st that hold a sub-field of agent a
Holding(st, a) == {k \in 1..Len(st) : a \in DOMAIN st[k].agents}

\* 1 for the newest-inserted document holding a's sub-field, 2 for the next
NewestRank(st, a, k) == Cardinality({h \in Holding(st, a) : h > k}) + 1

\* C13: get_memory for agent X returns at most 5 entries, each built from
\* X's own sub-field of a document that has one; the documents are the (up to)
\* 5 most recently inserted such documents, newest first; and the store is
\* unchanged.
C13_GetMemoryNewestFive ==
    [][pc' = "answer" =>
          /\ store' = store
          /\ Len(prompt_memory') <= MemLimit
          /\ Len(prompt_memory') = Min(MemLimit, Cardinality(Holding(store, i')))
          /\ \A k \in Holding(store, i') :
                NewestRank(store, i', k) <= MemLimit =>
                    prompt_memory'[NewestRank(store, i', k)] =
                        [question |-> store[k].question,
                         answer |-> store[k].agents[i'].answer,
                         correct_answer |-> store[k].agents[i'].correct_answer,
                         result |-> store[k].agents[i'].result]]_vars

\* a query cut at the limit, over a store whose newest document has no
\* sub-field of the asking agent
C13_Witness ==
    /\ pc = "answer"
    /\ Len(prompt_memory) = MemLimit
    /\ Cardinality(Holding(store, i)) > MemLimit
    /\ i \notin DOMAIN store[Len(store)].agents
    /\ prompt_memory[1].result # prompt_memory[2].result

\* the questions agent a has recorded
QuestionsOf(a) == {hist[a][k].question : k \in 1..Len(hist[a])}

\* the position of agent a's latest record for question q
LatestAt(a, q) == CHOOSE k \in RecordedAt(a, q) : \A j \in RecordedAt(a, q) : j <= k

\* 1 for the question agent a recorded last, 2 for the one before it
RecencyRank(a, q) ==
    Cardinality({r \in QuestionsOf(a) : LatestAt(a, r) > LatestAt(a, q)}) + 1

\* C14: the memory given to an agent when it answers consists of the (up to)
\* 5 outcomes it recorded most recently, also when it has re-answered a
\* question first answered more than 5 distinct questions ago.
C14_PromptHoldsMostRecent ==
    pc = "answer" =>
        {prompt_memory[j] : j \in 1..Len(prompt_memory)} =
            {hist[i][LatestAt(i, q)] :
                q \in {r \in QuestionsOf(i) : RecencyRank(i, r) <= MemLimit}}

\* C15: in the in-process variant the memory records serialized into an
\* agent's prompt are ordered most recent first: the j-th of them is the
\* j-th latest record of the agent.
C15_PromptMostRecentFirst ==
    (variant = "inproc" /\ pc = "answer") =>
        \A j \in 1..Len(prompt_memory) :
            prompt_memory[j] = hist[i][Len(hist[i]) - j + 1]

\* documents of the store whose question text is q
DocumentsOf(q) == {k \in 1..Len(store) : store[k].question = q}

\* C16: update_memory behaves as an atomic upsert: when the store operations
\* of the agents' calls on one previously unseen question interleave in any
\* order, the store ends with exactly one document for that question, and
\* the document holds the sub-field of every agent that wrote.
C16_InterleavedUpsertIsAtomic ==
    \A q \in Questions :
        (\A a \in Agents : um[a].pc = "done" /\ um[a].question = q) =>
            /\ Cardinality(DocumentsOf(q)) = 1
            /\ \A k \in DocumentsOf(q) : DOMAIN store[k].agents = Agents

\* agent a is between its update_memory and its update_score
MidPresentation(a) == pc = "score" /\ a = i

C18_PresentationOrder ==
    [][/\ (pc = "answer" /\ pc' = "record") =>
             /\ Len(hist[i]) = total_questions[i]
             /\ variant = "inproc" => prompt_memory' = hist[i]
             /\ variant = "durable" =>
                   \A j \in 1..Len(prompt_memory') :
                       \E k \in Holding(store, i) :
                           prompt_memory'[j] = StoredEntry(store[k], i)
             /\ (variant = "inproc" /\ total_questions[i] = 0) =>
                   prompt_memory' = <<>>
             /\ mcq_answer' = SplitFirst(response')
             /\ is_correct' = SameAnswer(mcq_answer', correct_answer)
             /\ UNCHANGED <<memory, store, hist, total_questions, correct_answers>>
       /\ pc = "record" =>
             /\ prompt_memory' = prompt_memory
             /\ UNCHANGED <<total_questions, correct_answers>>
             /\ pc' = "score" =>
                   hist'[i] = Append(hist[i],
                                     MemoryEntry(mcq, mcq_answer, correct_answer))
       /\ pc = "score" =>
             /\ UNCHANGED <<memory, store, hist>>
             /\ total_questions'[i] = total_questions[i] + 1]_vars

\* a second presentation: the prompt held the first record, the memory now
\* holds two
C18_Witness ==
    /\ variant = "inproc"
    /\ pc = "score"
    /\ Len(prompt_memory) = 1
    /\ Len(memory[i]) = 2
    /\ memory[i][2] # memory[i][1]

\* the records of s with result "correct"
CorrectIn(s) == Cardinality({k \in 1..Len(s) : s[k].result = "correct"})

\* C19: the outcome written to memory agrees with the score update of the
\* same presentation; so the records with result "correct" number
\* correct_answers and the records number total_questions after every
\* completed presentation (in the in-process memory, while nothing is
\* evicted, and in the recorded history of either variant).
C19_MemoryAgreesWithScore ==
    /\ pc = "score" => (Last(hist[i]).result = "correct" <=> is_correct)
    /\ \A a \in Agents :
          ~MidPresentation(a) =>
              /\ Len(hist[a]) = total_questions[a]
              /\ CorrectIn(hist[a]) = correct_answers[a]
              /\ variant = "inproc" =>
                    /\ Len(memory[a]) = total_questions[a]
                    /\ CorrectIn(memory[a]) = correct_answers[a]

\* an agent answered in the other letter case and was right once out of twice
C19_Witness ==
    /\ variant = "inproc"
    /\ pc = "input"
    /\ \E a \in Agents :
          /\ total_questions[a] = 2
          /\ correct_answers[a] = 1
          /\ \E k \in 1..2 :
                /\ memory[a][k].result = "correct"
                /\ memory[a][k].answer # memory[a][k].correct_answer

\* C20: get_all_responses presents the question to every agent once, in pool
\* order, each presentation raising that agent's total_questions by one: at a
\* round boundary every agent's total_questions is the number of rounds, and
\* within a round the agents before agent i are one ahead of the others.
C20_EveryAgentOncePerRound ==
    \A a \in Agents :
        total_questions[a] =
            IF pc \in {"input", "done"} \/ a < i THEN rounds ELSE rounds - 1

\* the last round boundary
C20_Witness ==
    /\ pc = "input"
    /\ rounds = MaxRounds
    /\ \A a \in Agents : total_questions[a] = MaxRounds

=============================================================================
